---- MODULE Spec2Model ----
(***************************************************************************)
(* Prefetcher (media/libstagefright/Prefetcher.cpp): one worker thread     *)
(* (Prefetcher::threadFunc) fills the caches (PrefetchedSource) of the     *)
(* registered sources, least buffered first; consumers start, stop and     *)
(* read the caches.                                                        *)
(*                                                                         *)
(* Granularity.  A critical section that neither blocks nor calls out is   *)
(* one action (the mutex makes it atomic for every other thread that uses  *)
(* the same mutex).  A critical section is split where the thread can      *)
(* block inside it: Condition::wait, the acquisition of a second mutex,    *)
(* and the calls into the underlying MediaSource (read, start, stop),      *)
(* which are made with PrefetchedSource::mLock held.                       *)
(*                                                                         *)
(* The underlying MediaSource is outside the repository.  It is modelled   *)
(* by its interface: a stream of units at positions 0..MaxPos whose        *)
(* timestamps are position * Step, a read that returns the unit at the     *)
(* current position (after applying the seek its options carry) or fails,  *)
(* and start/stop that return a status.  Every unit carries kKeyTime.      *)
(***************************************************************************)
EXTENDS Integers, Sequences, FiniteSets, TLC

\* ---------------------------------------------------------------- bounds
NCaches == 2
MaxPos == 2
Step == 5000000

\* ------------------------------------------------------ program constants
kMaxCacheDurationUs == 10000000
kPrepareDurationUs == 2000000
NoSeek == -1
NoIndex == -1

Caches == 0 .. (NCaches - 1)
Consumers == {"r1", "r2"}
SeekTargets == {0, Step}

VARIABLES
    \* Prefetcher
    mDone, mThreadExited, mLock, mCondition, mSources,
    \* PrefetchedSource, one per cache index
    strongRef, mStarted, mReachedEOS, mSeekTimeUs, mCacheDurationUs,
    mPrefetcherStopped, mCachedBuffers, srcLock, srcCondition,
    \* the underlying MediaSource of each cache
    srcPos,
    \* Prefetcher::threadFunc: position and locals
    wpc, wi, minIndex, minCacheDurationUs, options, probeOk, probeDur,
    \* consumer threads: position, the cache and the seek option of the call
    cpc, ccache, cseek, cstatus,
    \* the thread running ~Prefetcher / stopThread
    spc,
    \* a client thread in getCachedDurationUs or prepare: position, the call,
    \* the scan's locals, what each probe returned, the results of the poll
    qpc, qcall, qi, qMinIndex, qMinCacheDurationUs, qProbeOk, qProbeDur,
    noMoreData, duration,
    \* history: buffers the cache owns, a release of a buffer it does not own,
    \* the buffers released by the clearCache_l of a stop or seeking read still
    \* in progress, the units the source
    \* returned and the units reads returned since the last clearCache_l,
    \* the seek recorded by a read since the last source read, whether the
    \* source has been read at all
    owned, doubleRelease, lastReleased, srcLog, delivered, seekReq, everRead

prefetcherVars == <<mDone, mThreadExited, mLock, mCondition, mSources>>
cacheVars == <<strongRef, mStarted, mReachedEOS, mSeekTimeUs, mCacheDurationUs,
               mPrefetcherStopped, mCachedBuffers, srcLock, srcCondition>>
workerVars == <<wpc, wi, minIndex, minCacheDurationUs, options, probeOk, probeDur>>
consumerVars == <<cpc, ccache, cseek, cstatus>>
historyVars == <<owned, doubleRelease, lastReleased, srcLog, delivered, seekReq,
                 everRead>>
queryVars == <<qpc, qcall, qi, qMinIndex, qMinCacheDurationUs, qProbeOk,
               qProbeDur, noMoreData, duration>>
vars == <<prefetcherVars, cacheVars, srcPos, workerVars, consumerVars, spc,
          queryVars, historyVars>>

\* ------------------------------------------------------------- helpers

\* Mutant: a signal wakes nobody.
SignalChoices_nobody(waiters) == {"nobody"}

\* Condition::signal(): wakes one of the threads waiting, if any.
SignalChoices(waiters) == IF waiters = {} THEN {"nobody"} ELSE waiters

Last(q) == q[Len(q)]

SeqToSet(q) == {q[k] : k \in 1 .. Len(q)}

\* Mutant: the span is taken to the buffer before the newest one.
updateCacheDuration_short(q) ==
    IF Len(q) < 2 THEN 0 ELSE q[Len(q) - 1] - Head(q)

\* PrefetchedSource::updateCacheDuration_l
updateCacheDuration_l(q) ==
    IF Len(q) < 2 THEN 0 ELSE Last(q) - Head(q)

\* PrefetchedSource::clearCache_l: release and erase each buffer, front first.
RECURSIVE clearLoop(_, _, _, _)
clearLoop(q, rel, own, bad) ==
    IF q = <<>>
    THEN [queue |-> q, released |-> rel, owned |-> own, bad |-> bad]
    ELSE clearLoop(Tail(q), Append(rel, Head(q)), own \ {Head(q)},
                   bad \/ Head(q) \notin own)

\* Mutant: the buffers are erased and not released.
clearCache_leak(q, own) ==
    [queue |-> <<>>, released |-> <<>>, owned |-> own, bad |-> FALSE]

clearCache_l(q, own) == clearLoop(q, <<>>, own, FALSE)

\* Mutant: a cache at end of stream still reports that it is caching.
getCacheDurationUs_ignoreEOS(c) ==
    IF ~mStarted[c]
    THEN [caching |-> FALSE, durationUs |-> 0]
    ELSE [caching |-> TRUE, durationUs |-> mCacheDurationUs[c]]

\* PrefetchedSource::getCacheDurationUs
getCacheDurationUs(c) ==
    IF ~mStarted[c] \/ mReachedEOS[c]
    THEN [caching |-> FALSE, durationUs |-> 0]
    ELSE [caching |-> TRUE, durationUs |-> mCacheDurationUs[c]]

\* Mutant: the ceiling is not tested.
selectStep_noCeiling(min, i, probe) ==
    IF ~probe.caching THEN min
    ELSE IF min.index < 0 \/ probe.durationUs < min.durationUs
         THEN [index |-> i, durationUs |-> probe.durationUs]
         ELSE min

\* Mutant: <= for <, the last of several minima wins.
selectStep_lastWins(min, i, probe) ==
    IF ~probe.caching THEN min
    ELSE IF probe.durationUs >= kMaxCacheDurationUs THEN min
    ELSE IF min.index < 0 \/ probe.durationUs <= min.durationUs
         THEN [index |-> i, durationUs |-> probe.durationUs]
         ELSE min

\* The selection step of the scan in Prefetcher::threadFunc, for entry i.
selectStep(min, i, probe) ==
    IF ~probe.caching THEN min
    ELSE IF probe.durationUs >= kMaxCacheDurationUs THEN min
    ELSE IF min.index < 0 \/ probe.durationUs < min.durationUs
         THEN [index |-> i, durationUs |-> probe.durationUs]
         ELSE min

\* Mutant: the fetch does not test mStarted.
cacheMoreReturnsEarly_never(c) == FALSE

\* cacheMore, lines 342-344: nothing is fetched for a cache that is not started.
cacheMoreReturnsEarly(c) == ~mStarted[c]

\* Mutant: the pending seek is not reset once taken.
takeSeek_keep(seekTimeUs) ==
    IF seekTimeUs >= 0
    THEN [options |-> seekTimeUs, mSeekTimeUs |-> seekTimeUs]
    ELSE [options |-> NoSeek, mSeekTimeUs |-> seekTimeUs]

\* cacheMore, lines 346-349: a pending seek moves into the read's options.
takeSeek(seekTimeUs) ==
    IF seekTimeUs >= 0
    THEN [options |-> seekTimeUs, mSeekTimeUs |-> NoSeek]
    ELSE [options |-> NoSeek, mSeekTimeUs |-> seekTimeUs]

\* cacheMore, line 379: push_back.
pushBack(q, copy) == Append(q, copy)

\* Mutant: the newest buffer is returned and erased.
popFront_back(q) == [out |-> Last(q), rest |-> SubSeq(q, 1, Len(q) - 1)]

\* read, lines 312-313: the buffer at begin() is returned and erased.
popFront(q) == [out |-> Head(q), rest |-> Tail(q)]

\* The underlying source's read: the position it reads at and its outcome.
sourceReadPos(c, opt) == IF opt >= 0 THEN opt \div Step ELSE srcPos[c]
sourceReadOk(c, opt, ok) == ok /\ sourceReadPos(c, opt) <= MaxPos
sourceUnitTimeUs(pos) == pos * Step

\* ---------------------------------------------------------------- Init
Init ==
    /\ mDone = FALSE
    /\ mThreadExited = FALSE
    /\ mLock = "free"
    /\ mCondition = {}
    /\ mSources = <<>>
    /\ strongRef = [c \in Caches |-> FALSE]
    /\ mStarted = [c \in Caches |-> FALSE]
    /\ mReachedEOS = [c \in Caches |-> FALSE]
    /\ mSeekTimeUs = [c \in Caches |-> 0]
    /\ mCacheDurationUs = [c \in Caches |-> 0]
    /\ mPrefetcherStopped = [c \in Caches |-> FALSE]
    /\ mCachedBuffers = [c \in Caches |-> <<>>]
    /\ srcLock = [c \in Caches |-> "free"]
    /\ srcCondition = [c \in Caches |-> {}]
    /\ srcPos = [c \in Caches |-> 0]
    /\ wpc = "top"
    /\ wi = 0
    /\ minIndex = NoIndex
    /\ minCacheDurationUs = -1
    /\ options = NoSeek
    /\ probeOk = [c \in Caches |-> "unprobed"]
    /\ probeDur = [c \in Caches |-> 0]
    /\ cpc = [t \in Consumers |-> "idle"]
    /\ ccache = [t \in Consumers |-> 0]
    /\ cseek = [t \in Consumers |-> NoSeek]
    /\ cstatus = [t \in Consumers |-> "none"]
    /\ spc = "idle"
    /\ qpc = "idle"
    /\ qcall = "none"
    /\ qi = 0
    /\ qMinIndex = NoIndex
    /\ qMinCacheDurationUs = -1
    /\ qProbeOk = [c \in Caches |-> "unprobed"]
    /\ qProbeDur = [c \in Caches |-> 0]
    /\ noMoreData = FALSE
    /\ duration = 0
    /\ owned = [c \in Caches |-> {}]
    /\ doubleRelease = FALSE
    /\ lastReleased = [c \in Caches |-> <<>>]
    /\ srcLog = [c \in Caches |-> <<>>]
    /\ delivered = [c \in Caches |-> <<>>]
    /\ seekReq = [c \in Caches |-> NoSeek]
    /\ everRead = [c \in Caches |-> FALSE]

\* ------------------------------------------------------------ Prefetcher

\* Prefetcher::addSource.  ~Prefetcher is the only caller of stopThread, so no
\* member is called once it has begun.
addSource ==
    LET c == Len(mSources) IN
    /\ spc = "idle"
    /\ mLock = "free"
    /\ c < NCaches
    /\ mSources' = Append(mSources, c)
    /\ strongRef' = [strongRef EXCEPT ![c] = TRUE]
    /\ UNCHANGED <<mDone, mThreadExited, mLock, mCondition,
                   mStarted, mReachedEOS, mSeekTimeUs, mCacheDurationUs,
                   mPrefetcherStopped, mCachedBuffers, srcLock, srcCondition,
                   srcPos, workerVars, consumerVars, spc, historyVars>>
    /\ UNCHANGED queryVars


resetLocals ==
    /\ wi' = 0
    /\ minIndex' = NoIndex
    /\ minCacheDurationUs' = -1
    /\ options' = NoSeek
    /\ probeOk' = [c \in Caches |-> "unprobed"]
    /\ probeDur' = [c \in Caches |-> 0]

\* threadFunc, lines 134-138: take mLock, leave the loop if mDone, else wait
\* on mCondition (which releases mLock) for at most the wake interval.
threadFunc_top ==
    /\ wpc = "top"
    /\ mLock = "free"
    /\ IF mDone
       THEN wpc' = "exit" /\ UNCHANGED mCondition
       ELSE wpc' = "wait" /\ mCondition' = mCondition \cup {"worker"}
    /\ UNCHANGED <<mDone, mThreadExited, mLock, mSources, cacheVars, srcPos,
                   wi, minIndex, minCacheDurationUs, options, probeOk, probeDur,
                   consumerVars, spc, historyVars>>
    /\ UNCHANGED queryVars

\* threadFunc, lines 138-141: the wait ends (signal or timeout) and takes
\* mLock again; the scan starts.
threadFunc_wake ==
    /\ wpc = "wait"
    /\ mLock = "free"
    /\ mLock' = "worker"
    /\ mCondition' = mCondition \ {"worker"}
    /\ wpc' = "scan"
    /\ wi' = 0
    /\ minIndex' = NoIndex
    /\ minCacheDurationUs' = -1
    /\ UNCHANGED <<mDone, mThreadExited, mSources, cacheVars, srcPos,
                   options, probeOk, probeDur, consumerVars, spc, historyVars>>
    /\ UNCHANGED queryVars

\* threadFunc, lines 142-163: one iteration of the scan, with mLock held.
\* getCacheDurationUs takes the cache's lock: the worker waits for it here.
threadFunc_probe ==
    /\ wpc = "scan"
    /\ wi < Len(mSources)
    /\ LET c == mSources[wi + 1] IN
       IF ~strongRef[c]
       THEN /\ probeOk' = [probeOk EXCEPT ![c] = "gone"]
            /\ UNCHANGED <<probeDur, minIndex, minCacheDurationUs>>
       ELSE /\ srcLock[c] = "free"
            /\ LET probe == getCacheDurationUs(c)
                   min == selectStep([index |-> minIndex,
                                      durationUs |-> minCacheDurationUs],
                                     wi, probe)
               IN /\ probeOk' = [probeOk EXCEPT
                        ![c] = IF probe.caching THEN "caching" ELSE "idle"]
                  /\ probeDur' = [probeDur EXCEPT ![c] = probe.durationUs]
                  /\ minIndex' = min.index
                  /\ minCacheDurationUs' = min.durationUs
    /\ wi' = wi + 1
    /\ UNCHANGED <<prefetcherVars, cacheVars, srcPos, wpc, options,
                   consumerVars, spc, historyVars>>
    /\ UNCHANGED queryVars

\* Mutant: the worker keeps mLock when it goes on to the fetch.
threadFunc_scanEnd_keepsLock ==
    /\ wpc = "scan"
    /\ wi = Len(mSources)
    /\ IF minIndex < 0
       THEN wpc' = "top" /\ resetLocals /\ mLock' = "free"
       ELSE /\ wpc' = "selected"
            /\ UNCHANGED <<mLock, wi, minIndex, minCacheDurationUs, options,
                           probeOk, probeDur>>
    /\ UNCHANGED <<mDone, mThreadExited, mCondition, mSources, cacheVars,
                   srcPos, consumerVars, spc, queryVars, historyVars>>

\* threadFunc, lines 163-168: the scan is over, mLock is released; without a
\* selection the loop starts over, with one the fetch follows.
threadFunc_scanEnd ==
    /\ wpc = "scan"
    /\ wi = Len(mSources)
    /\ mLock' = "free"
    /\ IF minIndex < 0
       THEN wpc' = "top" /\ resetLocals
       ELSE /\ wpc' = "selected"
            /\ UNCHANGED <<wi, minIndex, minCacheDurationUs, options,
                           probeOk, probeDur>>
    /\ UNCHANGED <<mDone, mThreadExited, mCondition, mSources, cacheVars,
                   srcPos, consumerVars, spc, historyVars>>
    /\ UNCHANGED queryVars

\* Mutant: the fetch does not hold the cache's lock during the source's read.
cacheMore_enter_unlocked ==
    /\ wpc = "selected"
    /\ LET c == mSources[minIndex + 1] IN
       /\ srcLock[c] = "free"
       /\ IF cacheMoreReturnsEarly(c)
          THEN /\ wpc' = "top"
               /\ resetLocals
               /\ UNCHANGED <<mSeekTimeUs, seekReq, everRead>>
          ELSE /\ wpc' = "inread"
               /\ options' = takeSeek(mSeekTimeUs[c]).options
               /\ mSeekTimeUs' = [mSeekTimeUs EXCEPT
                     ![c] = takeSeek(mSeekTimeUs[c]).mSeekTimeUs]
               /\ seekReq' = [seekReq EXCEPT ![c] = NoSeek]
               /\ everRead' = [everRead EXCEPT ![c] = TRUE]
               /\ UNCHANGED <<wi, minIndex, minCacheDurationUs, probeOk, probeDur>>
    /\ UNCHANGED <<prefetcherVars, strongRef, mStarted, mReachedEOS,
                   mCacheDurationUs, mPrefetcherStopped, mCachedBuffers,
                   srcLock, srcCondition, srcPos, consumerVars, spc,
                   owned, doubleRelease, lastReleased, srcLog, delivered,
                   queryVars>>

\* cacheMore, lines 337-352: take the cache's lock, return if not started,
\* else move the pending seek into the read options and call the source.
cacheMore_enter ==
    /\ wpc = "selected"
    /\ LET c == mSources[minIndex + 1] IN
       /\ srcLock[c] = "free"
       /\ IF cacheMoreReturnsEarly(c)
          THEN /\ wpc' = "top"
               /\ resetLocals
               /\ UNCHANGED <<mSeekTimeUs, srcLock, seekReq, everRead>>
          ELSE /\ wpc' = "inread"
               /\ options' = takeSeek(mSeekTimeUs[c]).options
               /\ mSeekTimeUs' = [mSeekTimeUs EXCEPT
                     ![c] = takeSeek(mSeekTimeUs[c]).mSeekTimeUs]
               /\ srcLock' = [srcLock EXCEPT ![c] = "worker"]
               /\ seekReq' = [seekReq EXCEPT ![c] = NoSeek]
               /\ everRead' = [everRead EXCEPT ![c] = TRUE]
               /\ UNCHANGED <<wi, minIndex, minCacheDurationUs, probeOk, probeDur>>
    /\ UNCHANGED <<prefetcherVars, strongRef, mStarted, mReachedEOS,
                   mCacheDurationUs, mPrefetcherStopped, mCachedBuffers,
                   srcCondition, srcPos, consumerVars, spc,
                   owned, doubleRelease, lastReleased, srcLog, delivered>>
    /\ UNCHANGED queryVars

\* cacheMore, lines 352-382: the source's read returns.  On an error the cache
\* is at end of stream; else the unit is copied with its timestamp, the
\* source's buffer released, the copy appended and the duration recomputed.
\* One waiting reader is signalled and the cache's lock released.
cacheMore_return ==
    /\ wpc = "inread"
    /\ LET c == mSources[minIndex + 1]
           pos == sourceReadPos(c, options)
       IN \E ok \in BOOLEAN, w \in SignalChoices(srcCondition[c]) :
          /\ IF sourceReadOk(c, options, ok)
             THEN LET copy == sourceUnitTimeUs(pos)
                      q == pushBack(mCachedBuffers[c], copy)
                  IN /\ mCachedBuffers' = [mCachedBuffers EXCEPT ![c] = q]
                     /\ mCacheDurationUs' = [mCacheDurationUs EXCEPT
                           ![c] = updateCacheDuration_l(q)]
                     /\ srcPos' = [srcPos EXCEPT ![c] = pos + 1]
                     /\ owned' = [owned EXCEPT ![c] = @ \cup {copy}]
                     /\ srcLog' = [srcLog EXCEPT ![c] = Append(@, copy)]
                     /\ UNCHANGED mReachedEOS
             ELSE /\ mReachedEOS' = [mReachedEOS EXCEPT ![c] = TRUE]
                  /\ srcPos' = [srcPos EXCEPT ![c] = pos]
                  /\ UNCHANGED <<mCachedBuffers, mCacheDurationUs, owned, srcLog>>
          /\ srcCondition' = [srcCondition EXCEPT ![c] = @ \ {w}]
          /\ srcLock' = [srcLock EXCEPT ![c] = "free"]
    /\ wpc' = "top"
    /\ resetLocals
    /\ UNCHANGED <<prefetcherVars, strongRef, mStarted, mSeekTimeUs,
                   mPrefetcherStopped, consumerVars, spc,
                   doubleRelease, lastReleased, delivered, seekReq, everRead>>
    /\ UNCHANGED queryVars

\* threadFunc, line 176: out of the loop, take mLock for the notifications.
threadFunc_exit ==
    /\ wpc = "exit"
    /\ mLock = "free"
    /\ mLock' = "worker"
    /\ wpc' = "notify"
    /\ wi' = 0
    /\ UNCHANGED <<mDone, mThreadExited, mCondition, mSources, cacheVars, srcPos,
                   minIndex, minCacheDurationUs, options, probeOk, probeDur,
                   consumerVars, spc, historyVars>>
    /\ UNCHANGED queryVars

\* threadFunc, lines 177-185, and onPrefetcherStopped, lines 409-413.
threadFunc_notify ==
    /\ wpc = "notify"
    /\ wi < Len(mSources)
    /\ LET c == mSources[wi + 1] IN
       IF ~strongRef[c]
       THEN UNCHANGED <<mPrefetcherStopped, srcCondition>>
       ELSE /\ srcLock[c] = "free"
            /\ mPrefetcherStopped' = [mPrefetcherStopped EXCEPT ![c] = TRUE]
            /\ \E w \in SignalChoices(srcCondition[c]) :
                  srcCondition' = [srcCondition EXCEPT ![c] = @ \ {w}]
    /\ wi' = wi + 1
    /\ UNCHANGED <<prefetcherVars, strongRef, mStarted, mReachedEOS, mSeekTimeUs,
                   mCacheDurationUs, mCachedBuffers, srcLock, srcPos,
                   wpc, minIndex, minCacheDurationUs, options, probeOk, probeDur,
                   consumerVars, spc, historyVars>>
    /\ UNCHANGED queryVars

\* threadFunc, lines 187-189.
threadFunc_done ==
    /\ wpc = "notify"
    /\ wi = Len(mSources)
    /\ mThreadExited' = TRUE
    /\ \E w \in SignalChoices(mCondition) : mCondition' = mCondition \ {w}
    /\ mLock' = "free"
    /\ wpc' = "done"
    /\ wi' = 0
    /\ UNCHANGED <<mDone, mSources, cacheVars, srcPos,
                   minIndex, minCacheDurationUs, options, probeOk, probeDur,
                   consumerVars, spc, historyVars>>
    /\ UNCHANGED queryVars

\* Mutant: stopThread does not wait for the worker.
stopThreadLoops_never == FALSE

\* stopThread, line 112: the condition of the while loop.
stopThreadLoops == ~mThreadExited

\* stopThread, lines 110-116, from the entry or from a wake-up: with mLock
\* held, return if the worker has exited, else set mDone, signal and wait.
stopThread_loop ==
    /\ mLock = "free"
    /\ IF ~stopThreadLoops
       THEN /\ spc' = "returned"
            /\ UNCHANGED <<mDone, mCondition>>
       ELSE /\ mDone' = TRUE
            /\ \E w \in SignalChoices(mCondition) :
                  mCondition' = (mCondition \ {w}) \cup {"stopper"}
            /\ spc' = "waiting"
    /\ UNCHANGED <<mThreadExited, mLock, mSources, cacheVars, srcPos,
                   workerVars, consumerVars, historyVars>>
    /\ UNCHANGED queryVars

stopThread_enter ==
    /\ spc = "idle"
    /\ stopThread_loop

stopThread_wake ==
    /\ spc = "waiting"
    /\ "stopper" \notin mCondition
    /\ stopThread_loop

\* stopThread, line 115: Condition::wait may return without a signal.
stopThread_spurious ==
    /\ spc = "waiting"
    /\ "stopper" \in mCondition
    /\ mCondition' = mCondition \ {"stopper"}
    /\ UNCHANGED <<mDone, mThreadExited, mLock, mSources, cacheVars, srcPos,
                   workerVars, consumerVars, spc, queryVars, historyVars>>

\* -------------------------------------- getCachedDurationUs and prepare

\* getCachedDurationUs, lines 192-195: take mLock, start the scan.
getCachedDurationUs_lock ==
    /\ mLock = "free"
    /\ mLock' = "query"
    /\ qpc' = "scan"
    /\ qi' = 0
    /\ qMinIndex' = NoIndex
    /\ qMinCacheDurationUs' = -1
    /\ qProbeOk' = [c \in Caches |-> "unprobed"]
    /\ qProbeDur' = [c \in Caches |-> 0]
    /\ UNCHANGED <<mDone, mThreadExited, mCondition, mSources, cacheVars, srcPos,
                   workerVars, consumerVars, spc, noMoreData, duration,
                   historyVars>>

\* A client calls getCachedDurationUs.
getCachedDurationUs_enter ==
    /\ qpc \in {"idle", "returned"}
    /\ spc = "idle"
    /\ qcall' = "getCachedDurationUs"
    /\ getCachedDurationUs_lock

\* A client calls prepare, lines 227-230: the first poll.
prepare_enter ==
    /\ qpc \in {"idle", "returned"}
    /\ spc = "idle"
    /\ qcall' = "prepare"
    /\ getCachedDurationUs_lock

\* prepare, lines 229-231: the loop condition held, the next poll.
prepare_poll ==
    /\ qpc = "poll"
    /\ UNCHANGED qcall
    /\ getCachedDurationUs_lock

\* getCachedDurationUs, lines 196-215: one iteration of the scan, with mLock
\* held; getCacheDurationUs takes the cache's lock.
getCachedDurationUs_probe ==
    /\ qpc = "scan"
    /\ qi < Len(mSources)
    /\ LET c == mSources[qi + 1] IN
       IF ~strongRef[c]
       THEN /\ qProbeOk' = [qProbeOk EXCEPT ![c] = "gone"]
            /\ UNCHANGED <<qProbeDur, qMinIndex, qMinCacheDurationUs>>
       ELSE /\ srcLock[c] = "free"
            /\ LET probe == getCacheDurationUs(c)
                   min == selectStep([index |-> qMinIndex,
                                      durationUs |-> qMinCacheDurationUs],
                                     qi, probe)
               IN /\ qProbeOk' = [qProbeOk EXCEPT
                        ![c] = IF probe.caching THEN "caching" ELSE "idle"]
                  /\ qProbeDur' = [qProbeDur EXCEPT ![c] = probe.durationUs]
                  /\ qMinIndex' = min.index
                  /\ qMinCacheDurationUs' = min.durationUs
    /\ qi' = qi + 1
    /\ UNCHANGED <<prefetcherVars, cacheVars, srcPos, workerVars, consumerVars,
                   spc, qpc, qcall, noMoreData, duration, historyVars>>

\* Mutant: prepare returns after its first poll.
prepareLoops_never(done, dur) == FALSE

\* prepare, line 231: the condition of the do-while loop.
prepareLoops(done, dur) == ~done /\ dur < kPrepareDurationUs

\* getCachedDurationUs, lines 217-222: the scan is over, the results are
\* stored and mLock released; prepare, lines 230-233, polls again or returns.
getCachedDurationUs_return ==
    /\ qpc = "scan"
    /\ qi = Len(mSources)
    /\ mLock' = "free"
    /\ noMoreData' = (qMinCacheDurationUs < 0)
    /\ duration' = IF qMinCacheDurationUs < 0 THEN 0 ELSE qMinCacheDurationUs
    /\ qpc' = IF qcall = "prepare" /\ prepareLoops(noMoreData', duration')
              THEN "poll" ELSE "returned"
    /\ UNCHANGED <<mDone, mThreadExited, mCondition, mSources, cacheVars, srcPos,
                   workerVars, consumerVars, spc, qcall, qi, qMinIndex,
                   qMinCacheDurationUs, qProbeOk, qProbeDur, historyVars>>

\* ------------------------------------------------------ PrefetchedSource

\* PrefetchedSource::start, lines 257-261: CHECK(!mStarted), take the cache's
\* lock and call the source's start.
start_enter(t, c) ==
    /\ cpc[t] = "idle"
    /\ strongRef[c]
    /\ ~mStarted[c]
    /\ srcLock[c] = "free"
    /\ srcLock' = [srcLock EXCEPT ![c] = t]
    /\ cpc' = [cpc EXCEPT ![t] = "instart"]
    /\ ccache' = [ccache EXCEPT ![t] = c]
    /\ cstatus' = [cstatus EXCEPT ![t] = "none"]
    /\ UNCHANGED <<prefetcherVars, strongRef, mStarted, mReachedEOS, mSeekTimeUs,
                   mCacheDurationUs, mPrefetcherStopped, mCachedBuffers,
                   srcCondition, srcPos, workerVars, cseek, spc, historyVars>>
    /\ UNCHANGED queryVars

\* Mutant: start returns with the cache's lock still held.
start_return_keepsLock(t) ==
    /\ cpc[t] = "instart"
    /\ \E err \in {"OK", "UNKNOWN_ERROR"} :
          mStarted' = [mStarted EXCEPT ![ccache[t]] = (err = "OK")]
    /\ cpc' = [cpc EXCEPT ![t] = "idle"]
    /\ UNCHANGED <<prefetcherVars, strongRef, mReachedEOS, mSeekTimeUs,
                   mCacheDurationUs, mPrefetcherStopped, mCachedBuffers,
                   srcLock, srcCondition, srcPos, workerVars, ccache, cseek,
                   cstatus, spc, historyVars, queryVars>>

\* PrefetchedSource::start, lines 261-270: the source's start returns.
start_return(t) ==
    /\ cpc[t] = "instart"
    /\ \E err \in {"OK", "UNKNOWN_ERROR"} :
          mStarted' = [mStarted EXCEPT ![ccache[t]] = (err = "OK")]
    /\ srcLock' = [srcLock EXCEPT ![ccache[t]] = "free"]
    /\ cpc' = [cpc EXCEPT ![t] = "idle"]
    /\ UNCHANGED <<prefetcherVars, strongRef, mReachedEOS, mSeekTimeUs,
                   mCacheDurationUs, mPrefetcherStopped, mCachedBuffers,
                   srcCondition, srcPos, workerVars, ccache, cseek, cstatus, spc,
                   historyVars>>
    /\ UNCHANGED queryVars

\* PrefetchedSource::stop, lines 273-279: CHECK(mStarted), take the cache's
\* lock, clearCache_l, call the source's stop.
stop_enter(t, c) ==
    /\ cpc[t] = "idle"
    /\ strongRef[c]
    /\ mStarted[c]
    /\ srcLock[c] = "free"
    /\ LET cl == clearCache_l(mCachedBuffers[c], owned[c]) IN
       /\ mCachedBuffers' = [mCachedBuffers EXCEPT ![c] = cl.queue]
       /\ mCacheDurationUs' = [mCacheDurationUs EXCEPT
             ![c] = updateCacheDuration_l(cl.queue)]
       /\ owned' = [owned EXCEPT ![c] = cl.owned]
       /\ doubleRelease' = (doubleRelease \/ cl.bad)
       /\ lastReleased' = [lastReleased EXCEPT ![c] = cl.released]
    /\ srcLog' = [srcLog EXCEPT ![c] = <<>>]
    /\ delivered' = [delivered EXCEPT ![c] = <<>>]
    /\ srcLock' = [srcLock EXCEPT ![c] = t]
    /\ cpc' = [cpc EXCEPT ![t] = "instop"]
    /\ ccache' = [ccache EXCEPT ![t] = c]
    /\ cstatus' = [cstatus EXCEPT ![t] = "none"]
    /\ UNCHANGED <<prefetcherVars, strongRef, mStarted, mReachedEOS, mSeekTimeUs,
                   mPrefetcherStopped, srcCondition, srcPos, workerVars, cseek,
                   spc, seekReq, everRead>>
    /\ UNCHANGED queryVars

\* Mutant: stop also resets the end-of-stream flag.
stop_return_clearsEOS(t) ==
    /\ cpc[t] = "instop"
    /\ mStarted' = [mStarted EXCEPT ![ccache[t]] = FALSE]
    /\ mReachedEOS' = [mReachedEOS EXCEPT ![ccache[t]] = FALSE]
    /\ srcLock' = [srcLock EXCEPT ![ccache[t]] = "free"]
    /\ cpc' = [cpc EXCEPT ![t] = "idle"]
    /\ lastReleased' = [lastReleased EXCEPT ![ccache[t]] = <<>>]
    /\ UNCHANGED <<prefetcherVars, strongRef, mSeekTimeUs,
                   mCacheDurationUs, mPrefetcherStopped, mCachedBuffers,
                   srcCondition, srcPos, workerVars, ccache, cseek, cstatus, spc,
                   owned, doubleRelease, srcLog, delivered, seekReq, everRead,
                   queryVars>>

\* PrefetchedSource::stop, lines 279-284: the source's stop returns; its
\* status goes to the caller and decides nothing here.
stop_return(t) ==
    /\ cpc[t] = "instop"
    /\ mStarted' = [mStarted EXCEPT ![ccache[t]] = FALSE]
    /\ srcLock' = [srcLock EXCEPT ![ccache[t]] = "free"]
    /\ cpc' = [cpc EXCEPT ![t] = "idle"]
    /\ lastReleased' = [lastReleased EXCEPT ![ccache[t]] = <<>>]
    /\ UNCHANGED <<prefetcherVars, strongRef, mReachedEOS, mSeekTimeUs,
                   mCacheDurationUs, mPrefetcherStopped, mCachedBuffers,
                   srcCondition, srcPos, workerVars, ccache, cseek, cstatus, spc,
                   owned, doubleRelease, srcLog, delivered, seekReq, everRead>>
    /\ UNCHANGED queryVars

\* Mutant: the loop of read does not test mPrefetcherStopped.
readWaits_ignoreStopped(c, q, eos) == ~eos /\ q = <<>>

\* PrefetchedSource::read, lines 304-316, with the cache's lock held: wait
\* while nothing is queued, the cache is not at end of stream and the
\* prefetcher runs; else return end of stream on an empty queue, or the
\* oldest buffer.  q, eos, own and deliv are the values the caller left.
readWaits(c, q, eos) == ~mPrefetcherStopped[c] /\ ~eos /\ q = <<>>

readLoop(t, c, q, eos, own, deliv) ==
    IF readWaits(c, q, eos)
    THEN /\ cpc' = [cpc EXCEPT ![t] = "waiting"]
         /\ srcCondition' = [srcCondition EXCEPT ![c] = @ \cup {t}]
         /\ cstatus' = [cstatus EXCEPT ![t] = "none"]
         /\ mCachedBuffers' = [mCachedBuffers EXCEPT ![c] = q]
         /\ mCacheDurationUs' = [mCacheDurationUs EXCEPT
               ![c] = IF q = mCachedBuffers[c] THEN @ ELSE updateCacheDuration_l(q)]
         /\ owned' = [owned EXCEPT ![c] = own]
         /\ delivered' = [delivered EXCEPT ![c] = deliv]
    ELSE /\ cpc' = [cpc EXCEPT ![t] = "idle"]
         /\ UNCHANGED srcCondition
         /\ IF q = <<>>
            THEN /\ cstatus' = [cstatus EXCEPT ![t] = "ERROR_END_OF_STREAM"]
                 /\ mCachedBuffers' = [mCachedBuffers EXCEPT ![c] = q]
                 /\ mCacheDurationUs' = [mCacheDurationUs EXCEPT
                       ![c] = IF q = mCachedBuffers[c] THEN @
                              ELSE updateCacheDuration_l(q)]
                 /\ owned' = [owned EXCEPT ![c] = own]
                 /\ delivered' = [delivered EXCEPT ![c] = deliv]
            ELSE /\ cstatus' = [cstatus EXCEPT ![t] = "OK"]
                 /\ mCachedBuffers' = [mCachedBuffers EXCEPT ![c] = popFront(q).rest]
                 /\ mCacheDurationUs' = [mCacheDurationUs EXCEPT
                       ![c] = updateCacheDuration_l(popFront(q).rest)]
                 /\ owned' = [owned EXCEPT ![c] = own \ {popFront(q).out}]
                 /\ delivered' = [delivered EXCEPT
                       ![c] = Append(deliv, popFront(q).out)]

\* PrefetchedSource::read, lines 288-306, called with or without a seek
\* (seek = NoSeek): take the cache's lock, CHECK(mStarted); a seek clears the
\* cache and the end-of-stream flag and records the target; then the loop.
read_enter(t, c, seek) ==
    /\ cpc[t] = "idle"
    /\ strongRef[c]
    /\ mStarted[c]
    /\ srcLock[c] = "free"
    /\ ccache' = [ccache EXCEPT ![t] = c]
    /\ IF seek >= 0
       THEN LET cl == clearCache_l(mCachedBuffers[c], owned[c]) IN
            /\ mReachedEOS' = [mReachedEOS EXCEPT ![c] = FALSE]
            /\ mSeekTimeUs' = [mSeekTimeUs EXCEPT ![c] = seek]
            /\ seekReq' = [seekReq EXCEPT ![c] = seek]
            /\ doubleRelease' = (doubleRelease \/ cl.bad)
            /\ lastReleased' = [lastReleased EXCEPT
                  ![c] = IF readWaits(c, cl.queue, FALSE) THEN cl.released ELSE <<>>]
            /\ srcLog' = [srcLog EXCEPT ![c] = <<>>]
            /\ readLoop(t, c, cl.queue, FALSE, cl.owned, <<>>)
       ELSE /\ UNCHANGED <<mReachedEOS, mSeekTimeUs, seekReq, doubleRelease,
                           lastReleased, srcLog>>
            /\ readLoop(t, c, mCachedBuffers[c], mReachedEOS[c], owned[c],
                        delivered[c])
    /\ cseek' = [cseek EXCEPT ![t] = IF cpc'[t] = "waiting" THEN seek ELSE NoSeek]
    /\ UNCHANGED <<prefetcherVars, strongRef, mStarted, mPrefetcherStopped,
                   srcLock, srcPos, workerVars, spc, everRead>>
    /\ UNCHANGED queryVars

\* PrefetchedSource::read, lines 304-306: a signalled reader takes the cache's
\* lock again and evaluates the loop condition again.
read_wake(t) ==
    /\ cpc[t] = "waiting"
    /\ t \notin srcCondition[ccache[t]]
    /\ srcLock[ccache[t]] = "free"
    /\ LET c == ccache[t] IN
       readLoop(t, c, mCachedBuffers[c], mReachedEOS[c], owned[c], delivered[c])
    /\ cseek' = [cseek EXCEPT ![t] = IF cpc'[t] = "waiting" THEN @ ELSE NoSeek]
    /\ lastReleased' = [lastReleased EXCEPT
          ![ccache[t]] = IF cpc'[t] = "idle" /\ cseek[t] >= 0 THEN <<>> ELSE @]
    /\ UNCHANGED <<prefetcherVars, strongRef, mStarted, mReachedEOS, mSeekTimeUs,
                   mPrefetcherStopped, srcLock, srcPos, workerVars, ccache, spc,
                   doubleRelease, srcLog, seekReq, everRead>>
    /\ UNCHANGED queryVars

\* The client drops its handle of a cache it has stopped: the registry's weak
\* reference no longer promotes (lines 143-147, 178-182).
dropSource(c) ==
    /\ strongRef[c]
    /\ ~mStarted[c]
    /\ srcLock[c] = "free"
    /\ \A t \in Consumers : cpc[t] = "idle" \/ ccache[t] # c
    /\ strongRef' = [strongRef EXCEPT ![c] = FALSE]
    /\ UNCHANGED <<prefetcherVars, mStarted, mReachedEOS, mSeekTimeUs,
                   mCacheDurationUs, mPrefetcherStopped, mCachedBuffers, srcLock,
                   srcCondition, srcPos, workerVars, consumerVars, spc,
                   historyVars>>
    /\ UNCHANGED queryVars

\* ----------------------------------------------------------------- Next
WorkerLoop ==
    \/ threadFunc_top
    \/ threadFunc_wake
    \/ threadFunc_probe
    \/ threadFunc_scanEnd
    \/ cacheMore_enter
    \/ cacheMore_return

WorkerExit ==
    \/ threadFunc_exit
    \/ threadFunc_notify
    \/ threadFunc_done

\* The usual client: each cache has one consumer thread of its own.
OwnCache(t) == IF t = "r1" THEN 0 ELSE NCaches - 1

ConsumerCall(t, c) ==
    \/ start_enter(t, c)
    \/ stop_enter(t, c)
    \/ \E seek \in {NoSeek} \cup SeekTargets : read_enter(t, c, seek)

ConsumerStep(t) ==
    \/ start_return(t)
    \/ stop_return(t)
    \/ read_wake(t)

Next ==
    \/ addSource
    \/ WorkerLoop
    \/ \E t \in Consumers : ConsumerCall(t, OwnCache(t))
    \/ \E t \in Consumers : ConsumerStep(t)

Spec == Init /\ [][Next]_vars

\* Two consumer threads on the first cache.
NextShared ==
    \/ addSource
    \/ WorkerLoop
    \/ \E t \in Consumers : ConsumerCall(t, 0)
    \/ \E t \in Consumers : ConsumerStep(t)

SpecShared == Init /\ [][NextShared]_vars

\* Scheduling: a thread that can take its next step again and again
\* eventually takes it (the worker's timed wait ends, a thread waiting for a
\* mutex that keeps being released gets it, a signalled reader runs, a call
\* into the underlying source returns).  When a consumer calls start, stop or
\* read, and when ~Prefetcher runs, is up to the client.
WorkerFair == SF_vars(WorkerLoop \/ WorkerExit)
ConsumersFair == \A t \in Consumers : SF_vars(ConsumerStep(t))

\* Consumers that start their cache and read it, with and without seeks, and
\* never stop it; no shutdown.
NextLive ==
    \/ addSource
    \/ WorkerLoop
    \/ \E t \in Consumers :
          \/ start_enter(t, OwnCache(t))
          \/ \E seek \in {NoSeek} \cup SeekTargets :
                read_enter(t, OwnCache(t), seek)
    \/ \E t \in Consumers : start_return(t) \/ read_wake(t)

SpecLive ==
    /\ Init /\ [][NextLive]_vars
    /\ SF_vars(WorkerLoop)
    /\ \A t \in Consumers : SF_vars(start_return(t) \/ read_wake(t))

\* The same with ~Prefetcher (stopThread) and two consumer threads on the
\* first cache.
NextStop ==
    \/ addSource
    \/ WorkerLoop
    \/ WorkerExit
    \/ stopThread_enter
    \/ stopThread_wake
    \/ \E t \in Consumers : ConsumerCall(t, 0)
    \/ \E t \in Consumers : ConsumerStep(t)

SpecStopLive ==
    /\ Init /\ [][NextStop]_vars
    /\ WorkerFair /\ ConsumersFair
    /\ SF_vars(stopThread_wake)

\* The clients' thread that queries the buffered duration and warms up.
QueryCall ==
    \/ getCachedDurationUs_enter
    \/ prepare_enter

QueryStep ==
    \/ prepare_poll
    \/ getCachedDurationUs_probe
    \/ getCachedDurationUs_return

\* Registration, the worker, a querying thread and one consumer per cache
\* that starts and reads it.
NextQuery ==
    \/ addSource
    \/ WorkerLoop
    \/ QueryCall
    \/ QueryStep
    \/ \E t \in Consumers :
          \/ start_enter(t, OwnCache(t))
          \/ read_enter(t, OwnCache(t), NoSeek)
    \/ \E t \in Consumers : start_return(t) \/ read_wake(t)

SpecQuery == Init /\ [][NextQuery]_vars


\* Shutdown: registration, the worker to its end, ~Prefetcher with spurious
\* wake-ups of its wait, one consumer per cache that starts, reads and stops
\* it, clients dropping caches.
NextShutdown ==
    \/ addSource
    \/ WorkerLoop
    \/ WorkerExit
    \/ stopThread_enter
    \/ stopThread_wake
    \/ stopThread_spurious
    \/ \E c \in Caches : dropSource(c)
    \/ \E t \in Consumers :
          \/ start_enter(t, OwnCache(t))
          \/ stop_enter(t, OwnCache(t))
          \/ read_enter(t, OwnCache(t), NoSeek)
    \/ \E t \in Consumers : ConsumerStep(t)

SpecShutdown == Init /\ [][NextShutdown]_vars

\* Shutdown under the scheduling assumptions above, with consumers that
\* start and read their cache; a spurious wake-up may happen and need not.
NextShutdownLive ==
    \/ addSource
    \/ WorkerLoop
    \/ WorkerExit
    \/ stopThread_enter
    \/ stopThread_wake
    \/ stopThread_spurious
    \/ \E t \in Consumers :
          \/ start_enter(t, OwnCache(t))
          \/ read_enter(t, OwnCache(t), NoSeek)
    \/ \E t \in Consumers : start_return(t) \/ read_wake(t)

SpecShutdownLive ==
    /\ Init /\ [][NextShutdownLive]_vars
    /\ WorkerFair
    /\ \A t \in Consumers : SF_vars(start_return(t) \/ read_wake(t))
    /\ SF_vars(stopThread_wake)

\* Every thread at once: registration, the worker to its end, ~Prefetcher,
\* a thread in prepare (which is getCachedDurationUs in a loop), and one
\* consumer per cache: that of the first cache starts, reads and stops it,
\* the other starts its cache.
NextAll ==
    \/ addSource
    \/ WorkerLoop
    \/ WorkerExit
    \/ stopThread_enter
    \/ stopThread_wake
    \/ prepare_enter
    \/ QueryStep
    \/ \E t \in Consumers :
          \/ start_enter(t, OwnCache(t))
          \/ OwnCache(t) = 0 /\ stop_enter(t, 0)
          \/ OwnCache(t) = 0 /\ read_enter(t, 0, NoSeek)
    \/ \E t \in Consumers : ConsumerStep(t)

SpecAll == Init /\ [][NextAll]_vars

\* ---------------------------------------------------------------- types
TypeOK ==
    /\ mDone \in BOOLEAN /\ mThreadExited \in BOOLEAN
    /\ mLock \in {"free", "worker", "query"}
    /\ mCondition \subseteq {"worker", "stopper"}
    /\ Len(mSources) <= NCaches
    /\ \A c \in Caches :
          /\ srcLock[c] \in {"free", "worker"} \cup Consumers
          /\ srcCondition[c] \subseteq Consumers
          /\ mSeekTimeUs[c] \in {NoSeek} \cup SeekTargets
          /\ srcPos[c] \in 0 .. (MaxPos + 1)
          /\ Len(mCachedBuffers[c]) <= MaxPos + 1
    /\ wpc \in {"top", "wait", "scan", "selected", "inread", "exit", "notify", "done"}
    /\ \A t \in Consumers :
          /\ cpc[t] \in {"idle", "instart", "instop", "waiting"}
          /\ cstatus[t] \in {"none", "OK", "ERROR_END_OF_STREAM"}

\* --------------------------------------------------------------- claims

Span(q) == IF Len(q) >= 2 THEN q[Len(q)] - q[1] ELSE 0

\* C1: whenever a cache's lock is free, its stored buffered duration is the
\* timestamp of the newest queued buffer minus that of the oldest when two or
\* more are queued, and 0 when fewer are.
C1_DurationIsSpan ==
    \A c \in Caches :
        srcLock[c] = "free" => mCacheDurationUs[c] = Span(mCachedBuffers[c])

\* C1 witness: after a fetch and a pop, two buffers are queued, a positive
\* duration is stored and the lock is free.
C1_Witness ==
    \E c \in Caches :
        /\ srcLock[c] = "free"
        /\ Len(mCachedBuffers[c]) >= 2
        /\ Len(delivered[c]) >= 1
        /\ mCacheDurationUs[c] > 0

Selecting == wpc \in {"selected", "inread"}

Qualifies(c) ==
    /\ probeOk[c] = "caching"
    /\ probeDur[c] < kMaxCacheDurationUs

\* C2: the cache selected for a fetch was probed, in the cycle's scan, as
\* started, not at end of stream and below the ceiling; without such a cache
\* no fetch is issued.
C2_SelectedWasEligible ==
    /\ Selecting => minIndex >= 0
    /\ (wpc \in {"scan", "selected", "inread"} /\ minIndex >= 0) =>
          /\ minIndex < Len(mSources)
          /\ Qualifies(mSources[minIndex + 1])

\* C2 witness: a fetch is selected in a cycle that probed another cache at or
\* above the ceiling.
C2_Witness ==
    /\ wpc = "selected"
    /\ \E c \in Caches :
          /\ probeOk[c] = "caching"
          /\ probeDur[c] >= kMaxCacheDurationUs
          /\ c # mSources[minIndex + 1]

\* C3: the selected cache is the first registered among the eligible caches
\* whose probed duration is the least probed duration of the eligible caches.
C3_LeastBufferedFirstRegistered ==
    Selecting =>
        LET sel == mSources[minIndex + 1] IN
        /\ Qualifies(sel)
        /\ \A c \in Caches :
              Qualifies(c) =>
                  \/ probeDur[sel] < probeDur[c]
                  \/ probeDur[sel] = probeDur[c] /\ sel <= c

\* C3 witness: two eligible caches were probed with the same duration and the
\* first registered is selected.
C3_Witness ==
    /\ wpc = "selected"
    /\ \E c \in Caches :
          /\ c # mSources[minIndex + 1]
          /\ Qualifies(c)
          /\ probeDur[c] = probeDur[mSources[minIndex + 1]]

\* C3 second case: the later registered cache is selected, its probed
\* duration being smaller.
C3_WitnessLater ==
    /\ wpc = "selected"
    /\ \E c \in Caches :
          /\ c < mSources[minIndex + 1]
          /\ Qualifies(c)
          /\ probeDur[c] > probeDur[mSources[minIndex + 1]]

NoDuplicates(q) == \A i, j \in 1 .. Len(q) : q[i] = q[j] => i = j

\* C4: between two clearings (seek or stop) the buffers that reads returned
\* are a prefix of the units the source returned to the fetches, in order,
\* none skipped, duplicated or delivered twice: what was fetched is what was
\* delivered followed by what is queued.
C4_DeliveredIsPrefixOfFetched ==
    \A c \in Caches :
        /\ srcLog[c] = delivered[c] \o mCachedBuffers[c]
        /\ NoDuplicates(srcLog[c])

\* C4 witness: both consumers of the cache got a buffer, two were delivered
\* and one more is queued.
C4_Witness ==
    /\ \A t \in Consumers : cstatus[t] = "OK" /\ cpc[t] = "idle"
    /\ Len(delivered[0]) >= 2
    /\ Len(mCachedBuffers[0]) >= 1

\* A read carrying a seek has just been entered by t on c and waits.
SeekReadStep(t, c) ==
    /\ cpc[t] = "idle"
    /\ cpc'[t] = "waiting"
    /\ ccache'[t] = c
    /\ cseek'[t] >= 0

\* C5: a read carrying a seek releases every queued buffer, leaves the queue
\* empty and the duration 0, clears the end-of-stream flag (the cache is
\* eligible again) and records the target as the pending seek, all by the
\* time the reader starts to wait.
C5_SeekReadClears ==
    [][\A t \in Consumers, c \in Caches :
          SeekReadStep(t, c) =>
              /\ mCachedBuffers'[c] = <<>>
              /\ lastReleased'[c] = mCachedBuffers[c]
              /\ owned'[c] = {}
              /\ ~doubleRelease'
              /\ mCacheDurationUs'[c] = 0
              /\ mStarted'[c] /\ ~mReachedEOS'[c]
              /\ mSeekTimeUs'[c] = cseek'[t]]_vars

\* C5 witness: a reader waits after a seek that released two buffers.
C5_Witness ==
    \E t \in Consumers :
        /\ cpc[t] = "waiting"
        /\ cseek[t] >= 0
        /\ Len(lastReleased[ccache[t]]) >= 2
        /\ mCachedBuffers[ccache[t]] = <<>>

\* C5 second case: a seek on a cache at end of stream.
C5_SeekClearsEOS ==
    [][\A t \in Consumers, c \in Caches :
          (SeekReadStep(t, c) /\ mReachedEOS[c]) => ~mReachedEOS'[c]]_vars

\* The worker issues the source's read of cache c.
SourceReadStep(c) ==
    /\ wpc = "selected"
    /\ wpc' = "inread"
    /\ mSources[minIndex + 1] = c

\* C6 as claimed: the source's read carries a seek target exactly when a read
\* recorded one since the cache's previous source read (or since registration),
\* the target is the last recorded, and no seek is pending afterwards.
C6_SeekCarriedIffRecorded ==
    [][\A c \in Caches :
          SourceReadStep(c) =>
              /\ options' = seekReq[c]
              /\ mSeekTimeUs'[c] = NoSeek]_vars

\* C6 amended: as claimed, except that the first source read of a cache
\* carries the target 0 when no read has recorded a seek (mSeekTimeUs is
\* constructed as 0, not as none).
C6_SeekCarriedIffRecordedOrFirst ==
    /\ [][\A c \in Caches :
            SourceReadStep(c) =>
                /\ options' = IF seekReq[c] # NoSeek THEN seekReq[c]
                              ELSE IF everRead[c] THEN NoSeek ELSE 0
                /\ mSeekTimeUs'[c] = NoSeek
                /\ seekReq'[c] = NoSeek]_vars
    /\ [](\A c \in Caches :
            everRead[c] => mSeekTimeUs[c] = seekReq[c])

\* C6 witness: a source read that is not the cache's first carries the
\* target of a seeking read.
C6_Witness ==
    /\ wpc = "inread"
    /\ options = Step
    /\ srcPos[mSources[minIndex + 1]] > 0

\* A stop has just been entered by t on c.
StopStep(t, c) ==
    /\ cpc[t] = "idle"
    /\ cpc'[t] = "instop"
    /\ ccache'[t] = c

\* C7: a cache that is not started has an empty queue and duration 0; stop
\* releases each queued buffer once and marks the cache not started; a fetch
\* selected before the stop appends nothing and does not call the source.
C7_StoppedIsEmpty ==
    /\ [](\A c \in Caches :
            ~mStarted[c] =>
                /\ mCachedBuffers[c] = <<>>
                /\ mCacheDurationUs[c] = 0
                /\ owned[c] = {})
    /\ [](~doubleRelease)
    /\ [][\A t \in Consumers, c \in Caches :
            /\ StopStep(t, c) =>
                  /\ lastReleased'[c] = mCachedBuffers[c]
                  /\ mCachedBuffers'[c] = <<>>
                  /\ owned'[c] = {}
            /\ (cpc[t] = "instop" /\ cpc'[t] = "idle" /\ ccache[t] = c) =>
                  ~mStarted'[c]]_vars
    /\ [][\A c \in Caches :
            (wpc = "selected" /\ mSources[minIndex + 1] = c /\ ~mStarted[c]
                /\ wpc' # "selected") =>
                  /\ wpc' = "top"
                  /\ mCachedBuffers'[c] = mCachedBuffers[c]
                  /\ srcPos'[c] = srcPos[c]
                  /\ srcLog'[c] = srcLog[c]
                  /\ srcLock'[c] = "free"]_vars

\* C7 witness: the worker has selected a cache for a fetch and the cache has
\* been stopped since.
C7_Witness ==
    /\ wpc = "selected"
    /\ ~mStarted[mSources[minIndex + 1]]
    /\ srcLock[mSources[minIndex + 1]] = "free"
    /\ srcPos[mSources[minIndex + 1]] > 0

\* C8: once the shutdown call has returned, every consumer blocked in read on
\* an empty queue eventually returns with end of stream.
C8_BlockedReadersReturnEOS ==
    \A t \in Consumers :
        (spc = "returned" /\ cpc[t] = "waiting"
            /\ mCachedBuffers[ccache[t]] = <<>>)
        ~> (cpc[t] = "idle" /\ cstatus[t] = "ERROR_END_OF_STREAM")

\* C9: a consumer blocked in read on a started cache eventually returns.
C9_BlockedReaderReturns ==
    \A t \in Consumers :
        (cpc[t] = "waiting" /\ mStarted[ccache[t]]) ~> (cpc[t] = "idle")

Eligible(c) ==
    /\ c < Len(mSources)
    /\ strongRef[c]
    /\ mStarted[c]
    /\ ~mReachedEOS[c]
    /\ mCacheDurationUs[c] < kMaxCacheDurationUs

Fetching(c) == wpc = "inread" /\ mSources[minIndex + 1] = c

\* C10: a cache that stays eligible is selected again and again, when no
\* shutdown is requested and the other caches keep being fetched without a
\* failure.
C10_EligibleIsEventuallySelected ==
    \A c \in Caches :
        ( /\ <>[]Eligible(c)
          /\ [](~mDone)
          /\ [](\A d \in Caches \ {c} : ~mReachedEOS[d])
          /\ \A d \in Caches \ {c} : []<>Fetching(d) )
        => []<>(Selecting /\ mSources[minIndex + 1] = c)

\* The source's read of the fetch on cache c has just failed.
FetchFailStep(c) ==
    /\ wpc = "inread"
    /\ mSources[minIndex + 1] = c
    /\ wpc' # "inread"
    /\ mReachedEOS'[c]

\* C11: a failed source read sets the end-of-stream flag of that cache and
\* nothing else of any cache (queues, durations, started flags, pending seeks
\* and the other caches' flags and waiters are as before), wakes a reader
\* waiting on that cache, and leaves the worker in its loop; a cache at end of
\* stream is never the one selected or fetched, and a scan that probed an
\* eligible cache selects one.
C11_FailedFetchOnlySetsEOS ==
    /\ [][\A c \in Caches :
            FetchFailStep(c) =>
                /\ mCachedBuffers' = mCachedBuffers
                /\ mCacheDurationUs' = mCacheDurationUs
                /\ mStarted' = mStarted
                /\ mSeekTimeUs' = mSeekTimeUs
                /\ mPrefetcherStopped' = mPrefetcherStopped
                /\ srcPos'[c] <= MaxPos + 1
                /\ \A d \in Caches \ {c} :
                      /\ mReachedEOS'[d] = mReachedEOS[d]
                      /\ srcCondition'[d] = srcCondition[d]
                      /\ srcLock'[d] = srcLock[d]
                      /\ srcPos'[d] = srcPos[d]
                /\ srcCondition[c] # {} =>
                      /\ srcCondition'[c] \subseteq srcCondition[c]
                      /\ srcCondition'[c] # srcCondition[c]
                /\ srcLock'[c] = "free"
                /\ wpc' = "top"
                /\ mDone' = mDone /\ mThreadExited' = mThreadExited]_vars
    /\ [](Selecting => ~mReachedEOS[mSources[minIndex + 1]])
    /\ []((wpc = "scan" /\ wi = Len(mSources)
            /\ \E d \in Caches : Qualifies(d)) => minIndex >= 0)

\* C11 witness: a cache is at end of stream after a failed fetch, its reader
\* has returned end of stream, and the worker is fetching another cache.
C11_Witness ==
    \E t \in Consumers :
        /\ mReachedEOS[ccache[t]]
        /\ cpc[t] = "idle"
        /\ cstatus[t] = "ERROR_END_OF_STREAM"
        /\ wpc = "inread"
        /\ mSources[minIndex + 1] # ccache[t]


\* The poll of the querying thread probed cache c as eligible.
QQualifies(c) ==
    /\ qProbeOk[c] = "caching"
    /\ qProbeDur[c] < kMaxCacheDurationUs

\* C12: prepare has returned only if its last poll probed no cache as
\* eligible (and reported no more data), or probed every eligible cache with
\* at least the warm-up threshold, the least of these durations being the
\* polled duration; the threshold is below the ceiling; while the poll finds
\* an eligible cache below the threshold, prepare polls again.
C12_PrepareReturnsAfterThresholdOrNoData ==
    /\ kPrepareDurationUs < kMaxCacheDurationUs
    /\ (qpc = "returned" /\ qcall = "prepare") =>
          \/ /\ \A c \in Caches : ~QQualifies(c)
             /\ noMoreData
             /\ duration = 0
          \/ /\ \E c \in Caches : QQualifies(c) /\ qProbeDur[c] = duration
             /\ \A c \in Caches : QQualifies(c) => qProbeDur[c] >= duration
             /\ ~noMoreData
             /\ duration >= kPrepareDurationUs
    /\ (qpc = "poll") =>
          /\ qcall = "prepare"
          /\ ~noMoreData
          /\ duration < kPrepareDurationUs
          /\ \E c \in Caches : QQualifies(c) /\ qProbeDur[c] = duration

\* C12 witness: prepare has returned after a poll that probed two eligible
\* caches, each with at least the threshold buffered.
C12_Witness ==
    /\ qpc = "returned"
    /\ qcall = "prepare"
    /\ \A c \in Caches : QQualifies(c)
    /\ duration >= kPrepareDurationUs

\* C12 second case: prepare has returned because no cache was eligible, one
\* being at end of stream.
C12_WitnessNoData ==
    /\ qpc = "returned"
    /\ qcall = "prepare"
    /\ noMoreData
    /\ \E c \in Caches : qProbeOk[c] = "idle" /\ mReachedEOS[c]


\* The worker has left its loop and told every cache that can be resolved.
WorkerFinished ==
    /\ wpc = "done"
    /\ mThreadExited
    /\ \A c \in Caches :
          (c < Len(mSources) /\ strongRef[c]) => mPrefetcherStopped[c]

\* C13: stopThread has returned only if the worker has left its loop, has set
\* the stopped flag of every registered cache that can be resolved, and has
\* set mThreadExited (in this order); from then on the worker takes no step:
\* no source is read, no queue grows and no end-of-stream flag is set.
C13_ShutdownReturnsAfterWorkerExit ==
    /\ [](spc = "returned" => WorkerFinished)
    /\ [](mThreadExited => WorkerFinished)
    /\ [](wpc \in {"exit", "notify", "done"} => mDone)
    /\ [][spc = "returned" =>
            /\ spc' = "returned"
            /\ UNCHANGED workerVars
            /\ srcPos' = srcPos
            /\ everRead' = everRead
            /\ \A c \in Caches :
                  /\ Len(mCachedBuffers'[c]) <= Len(mCachedBuffers[c])
                  /\ mReachedEOS'[c] = mReachedEOS[c]
                  /\ srcLock'[c] # "worker"]_vars

\* C13 witness: stopThread has returned, two caches carry the stopped flag,
\* one of them still holds a buffer, and a consumer is in a call.
C13_Witness ==
    /\ spc = "returned"
    /\ \A c \in Caches : mPrefetcherStopped[c]
    /\ \E c \in Caches : mCachedBuffers[c] # <<>>
    /\ \E t \in Consumers : cpc[t] # "idle"


\* C14: once stopThread has been called it returns, wherever the worker was
\* when mDone was set and whether or not the requester's wait is woken without
\* a signal.
C14_ShutdownReturns == (spc = "waiting") ~> (spc = "returned")

\* C14 witness: stopThread has set mDone and waits while the worker is inside
\* a fetch, the source's read not yet returned.
C14_Witness ==
    /\ spc = "waiting"
    /\ mDone
    /\ wpc = "inread"
    /\ "stopper" \in mCondition


\* C15: the stopped flag of a cache is never cleared, and while it is set a
\* read of the cache does not wait: without a seek it returns the oldest
\* queued buffer, or end of stream when nothing is queued; with a seek it
\* clears the queue and returns end of stream; a reader woken from its wait
\* returns; nothing is appended to the queue.
C15_StoppedReadNeverBlocks ==
    /\ [][\A c \in Caches : mPrefetcherStopped[c] => mPrefetcherStopped'[c]]_vars
    /\ [][\A t \in Consumers, c \in Caches :
            (mPrefetcherStopped[c] /\ read_enter(t, c, NoSeek)) =>
                /\ cpc'[t] = "idle"
                /\ IF mCachedBuffers[c] # <<>>
                   THEN /\ cstatus'[t] = "OK"
                        /\ delivered'[c] = Append(delivered[c], Head(mCachedBuffers[c]))
                        /\ mCachedBuffers'[c] = Tail(mCachedBuffers[c])
                   ELSE /\ cstatus'[t] = "ERROR_END_OF_STREAM"
                        /\ mCachedBuffers'[c] = <<>>]_vars
    /\ [][\A t \in Consumers, c \in Caches, seek \in SeekTargets :
            (mPrefetcherStopped[c] /\ read_enter(t, c, seek)) =>
                /\ cpc'[t] = "idle"
                /\ cstatus'[t] = "ERROR_END_OF_STREAM"
                /\ mCachedBuffers'[c] = <<>>]_vars
    /\ [][\A t \in Consumers :
            (mPrefetcherStopped[ccache[t]] /\ read_wake(t)) =>
                /\ cpc'[t] = "idle"
                /\ cstatus'[t] = IF mCachedBuffers[ccache[t]] # <<>>
                                 THEN "OK" ELSE "ERROR_END_OF_STREAM"]_vars
    /\ [][\A c \in Caches :
            mPrefetcherStopped[c] =>
                Len(mCachedBuffers'[c]) <= Len(mCachedBuffers[c])]_vars

\* C15 witness: after shutdown the consumers have drained two buffers from a
\* cache that never reached end of stream, and a read of the empty queue has
\* returned end of stream.
C15_Witness ==
    \E t \in Consumers :
        /\ spc = "returned"
        /\ mPrefetcherStopped[ccache[t]]
        /\ ~mReachedEOS[ccache[t]]
        /\ mStarted[ccache[t]]
        /\ Len(delivered[ccache[t]]) >= 2
        /\ mCachedBuffers[ccache[t]] = <<>>
        /\ cpc[t] = "idle"
        /\ cstatus[t] = "ERROR_END_OF_STREAM"


\* C16: the worker does not hold mLock from the end of its selection scan to
\* the end of the fetch: the step that ends the scan releases it, and while a
\* cache is selected or its source is being read mLock is free or held by
\* another thread.
C16_NoRegistryLockAcrossFetch ==
    /\ [](Selecting => mLock # "worker")
    /\ [](\A c \in Caches : srcLock[c] = "worker" => mLock # "worker")
    /\ [][(wpc = "scan" /\ wpc' # "scan") => mLock' = "free"]_vars

\* C16 witness: while the worker is inside the source's read, a client thread
\* holds mLock for a query.
C16_Witness ==
    /\ wpc = "inread"
    /\ mLock = "query"
    /\ qpc = "scan"


\* The worker, holding mLock, waits for the lock of the cache it is about to
\* probe or notify, another thread being inside that cache's source.
WorkerBlockedOnCache ==
    /\ wpc \in {"scan", "notify"}
    /\ mLock = "worker"
    /\ wi < Len(mSources)
    /\ strongRef[mSources[wi + 1]]
    /\ srcLock[mSources[wi + 1]] # "free"

\* The same for the thread in getCachedDurationUs.
QueryBlockedOnCache ==
    /\ qpc = "scan"
    /\ mLock = "query"
    /\ qi < Len(mSources)
    /\ strongRef[mSources[qi + 1]]
    /\ srcLock[mSources[qi + 1]] # "free"

\* C17: no thread holds mLock while it waits for a cache's lock that another
\* thread holds across a call into the underlying source.
C17_NoRegistryLockWhileBlockedOnCache ==
    /\ ~WorkerBlockedOnCache
    /\ ~QueryBlockedOnCache


\* The fetch on cache c has just appended a unit.
FetchAppendStep(c) ==
    /\ wpc = "inread"
    /\ mSources[minIndex + 1] = c
    /\ Len(mCachedBuffers'[c]) = Len(mCachedBuffers[c]) + 1

\* C18: a fetch holds the cache's lock from the moment it takes the pending
\* seek until it has appended, so no seek is recorded while a source read is
\* under way; while a recorded seek is pending the queue holds nothing; and
\* the first unit queued after a seek comes from the source read that carried
\* the target.  No unit read before a seek is queued, or returned, after it.
C18_NoStaleUnitAfterSeek ==
    /\ [](\A c \in Caches :
            Fetching(c) =>
                /\ srcLock[c] = "worker"
                /\ mSeekTimeUs[c] = NoSeek
                /\ seekReq[c] = NoSeek)
    /\ [](\A c \in Caches :
            seekReq[c] # NoSeek =>
                /\ mCachedBuffers[c] = <<>>
                /\ srcLog[c] = <<>>
                /\ delivered[c] = <<>>)
    /\ [][\A c \in Caches :
            FetchAppendStep(c) =>
                /\ mCachedBuffers'[c] = Append(mCachedBuffers[c],
                                               sourceUnitTimeUs(sourceReadPos(c, options)))
                /\ options # NoSeek =>
                      /\ mCachedBuffers[c] = <<>>
                      /\ srcLog[c] = <<>>
                      /\ Head(mCachedBuffers'[c]) = options]_vars
    /\ [][\A t \in Consumers, c \in Caches :
            (Fetching(c) /\ UNCHANGED wpc) =>
                UNCHANGED <<mCachedBuffers[c], mSeekTimeUs[c], srcLog[c],
                            delivered[c]>>]_vars

\* C18 witness: a seek has released the buffers queued before it, its reader
\* waits, and the worker is inside the source's read that carries the target.
C18_Witness ==
    \E t \in Consumers :
        /\ cpc[t] = "waiting"
        /\ cseek[t] # NoSeek
        /\ lastReleased[ccache[t]] # <<>>
        /\ Fetching(ccache[t])
        /\ options = cseek[t]


\* A step of start or stop on some cache.
StartOrStopStep ==
    \E t \in Consumers :
        \/ \E c \in Caches : start_enter(t, c) \/ stop_enter(t, c)
        \/ start_return(t)
        \/ stop_return(t)

\* C19: start and stop change neither the end-of-stream flag, nor the pending
\* seek, nor the stopped flag of any cache; the end-of-stream flag is set by a
\* failed fetch only and cleared by a seeking read only; a cache at end of
\* stream is not selected for a fetch, and a read of it without a seek does
\* not wait and returns end of stream when nothing is queued.
C19_StartStopKeepEOS ==
    /\ [][StartOrStopStep =>
            UNCHANGED <<mReachedEOS, mSeekTimeUs, mPrefetcherStopped>>]_vars
    /\ [][\A c \in Caches :
            /\ (~mReachedEOS[c] /\ mReachedEOS'[c]) => FetchFailStep(c)
            /\ (mReachedEOS[c] /\ ~mReachedEOS'[c]) =>
                  \E t \in Consumers, seek \in SeekTargets :
                      read_enter(t, c, seek)]_vars
    /\ [](\A c \in Caches :
            mReachedEOS[c] =>
                /\ ~getCacheDurationUs(c).caching
                /\ ~(Selecting /\ mSources[minIndex + 1] = c))
    /\ [][\A t \in Consumers, c \in Caches :
            (mReachedEOS[c] /\ read_enter(t, c, NoSeek)) =>
                /\ cpc'[t] = "idle"
                /\ mReachedEOS'[c]
                /\ mCachedBuffers[c] = <<>> =>
                      cstatus'[t] = "ERROR_END_OF_STREAM"]_vars

\* C19 witness: a cache that reached end of stream and was stopped is being
\* started again, the flag still set, the last read having returned end of
\* stream.
C19_Witness ==
    \E t \in Consumers :
        /\ cpc[t] = "instart"
        /\ mReachedEOS[ccache[t]]
        /\ ~mStarted[ccache[t]]
        /\ srcPos[ccache[t]] > 0
        /\ \E u \in Consumers \ {t} : cstatus[u] = "ERROR_END_OF_STREAM"


Threads == {"worker", "query", "stopper"} \cup Consumers

\* The thread is at a point where its next step takes the registry lock.
WantsRegistry(th) ==
    \/ th = "worker" /\ wpc \in {"top", "wait", "exit"}
    \/ th = "query" /\ qpc = "poll"
    \/ th = "stopper" /\ spc = "waiting" /\ "stopper" \notin mCondition

\* The thread is at a point where its next step takes the lock of cache c.
WantsCache(th, c) ==
    \/ /\ th = "worker"
       /\ \/ /\ wpc \in {"scan", "notify"}
             /\ wi < Len(mSources)
             /\ mSources[wi + 1] = c
             /\ strongRef[c]
          \/ wpc = "selected" /\ mSources[minIndex + 1] = c
    \/ /\ th = "query"
       /\ qpc = "scan"
       /\ qi < Len(mSources)
       /\ mSources[qi + 1] = c
       /\ strongRef[c]
    \/ /\ th \in Consumers
       /\ cpc[th] = "waiting"
       /\ ccache[th] = c
       /\ th \notin srcCondition[c]

HoldsCache(th) == {c \in Caches : srcLock[c] = th}

\* Thread a waits for a lock that thread b holds.
WaitsFor(a, b) ==
    \/ WantsRegistry(a) /\ mLock = b
    \/ \E c \in Caches : WantsCache(a, c) /\ srcLock[c] = b

\* The thread holding a lock is inside the critical section that took it, at
\* a point from which it goes on without another thread's help, or waits for
\* a cache's lock while holding the registry's.
HolderInSection ==
    /\ mLock = "worker" => wpc \in {"scan", "notify"}
    /\ mLock = "query" => qpc = "scan"
    /\ \A c \in Caches :
          /\ srcLock[c] = "worker" => wpc = "inread" /\ mSources[minIndex + 1] = c
          /\ srcLock[c] \in Consumers =>
                cpc[srcLock[c]] \in {"instart", "instop"} /\ ccache[srcLock[c]] = c
          /\ srcLock[c] \in {"free", "worker"} \cup Consumers

\* C20: a thread that holds a cache's lock neither takes the registry lock nor
\* another cache's lock; a cache's lock is taken by a thread that holds the
\* registry lock or none; every lock held is held by a thread inside its
\* critical section; and no set of threads exists in which each waits for a
\* lock held by another of the set.
C20_NoLockCycle ==
    /\ \A th \in Threads :
          HoldsCache(th) # {} =>
              /\ ~WantsRegistry(th)
              /\ Cardinality(HoldsCache(th)) = 1
              /\ \A c \in Caches : ~WantsCache(th, c)
    /\ \A th \in Threads, c \in Caches :
          WantsCache(th, c) => HoldsCache(th) = {}
    /\ HolderInSection
    /\ \A S \in (SUBSET Threads) \ {{}} :
          \E a \in S : \A b \in S : ~WaitsFor(a, b)

\* C20 witness: a consumer is inside start with its cache's lock, the thread
\* in prepare holds the registry lock and waits for that cache's lock, and the
\* worker, told to stop, waits for the registry lock while ~Prefetcher waits
\* for the worker.
C20_Witness ==
    /\ QueryBlockedOnCache
    /\ srcLock[mSources[qi + 1]] \in Consumers
    /\ wpc = "exit"
    /\ spc = "waiting"


====
